---- MODULE Spec2Model ----
(***************************************************************************)
(* Model of lib/nginx-proxy-stack.ts: the HTTPS listener of the load       *)
(* balancer, the boot script of the instance (userData.addCommands) and    *)
(* the nginx site configuration that the script writes.                    *)
(*                                                                         *)
(* Spec      the instance boots (the script's commands run one after the   *)
(*           other) while requests arrive at the listener and are served   *)
(*           by whatever runs on the instance at that moment.              *)
(* ConfSpec  requests the listener accepts are evaluated against the       *)
(*           written site file by the request-processing rules of nginx    *)
(*           (location selection, rewrite, proxy_set_header, proxy_pass,   *)
(*           proxy_redirect, timeouts): the routing policy the file        *)
(*           declares.                                                     *)
(* FairConfSpec  ConfSpec with the progress nginx's timers guarantee.      *)
(*                                                                         *)
(* Strings that are matched by prefix are sequences of characters; an      *)
(* origin ("https://host") is one symbol of such a sequence.               *)
(***************************************************************************)
EXTENDS Naturals, Sequences, FiniteSets, TLC

VARIABLES
  pc,         \* the command of the boot script that runs next
  siteFile,   \* /etc/nginx/sites-available/default: "none", "package", "written"
  nginx,      \* the service: its state and the site file it has loaded
  validated,  \* the outcome of nginx -t: "none", "ok", "failed"
  enabled,    \* systemctl enable has run
  reqs        \* the requests: what came in, where it went, what was answered

vars == <<pc, siteFile, nginx, validated, enabled, reqs>>

bootVars == <<pc, siteFile, nginx, validated, enabled>>

(***************************************************************************)
(* Bounds                                                                  *)
(***************************************************************************)
MaxReqs == 2

MaxHops == 2

(***************************************************************************)
(* Names                                                                   *)
(***************************************************************************)
WwwHost == "www.bim.com.sg"

JobsHost == "jobs.bimeco.io"

WwwOrigin == "https://www.bim.com.sg"

JobsOrigin == "https://jobs.bimeco.io"

ClientAddr == "client"

AlbAddr == "alb"

InstanceAddr == "instance"

SLASH == <<"/">>

JOBS == <<"/", "j", "o", "b", "s">>

CAREER == <<"/", "c", "a", "r", "e", "e", "r">>

NEXT == <<"/", "_", "n", "e", "x", "t", "/">>

FIFTY == <<"/", "5", "0", "x", ".", "h", "t", "m", "l">>

ErrorRoot == "/usr/share/nginx/html"

IsPrefix(p, s) == Len(p) <= Len(s) /\ SubSeq(s, 1, Len(p)) = p

Drop(s, n) == SubSeq(s, n + 1, Len(s))

(***************************************************************************)
(* The site file as the template literal spells it.  A word of a directive *)
(* is literal text ("lit"), a dollar name the template leaves to the shell *)
(* ("var": $name) or an escaped one ("esc": \$name).                       *)
(***************************************************************************)
Lit(s) == [q |-> "lit", v |-> s]

Var(s) == [q |-> "var", v |-> s]

Esc(s) == [q |-> "esc", v |-> s]

NoRewrite == [on |-> FALSE, anchor |-> Lit(""), group |-> Lit(""), flag |-> ""]

NoRedirect == [on |-> FALSE, from |-> <<>>, to |-> <<>>]

Template ==
  << [name |-> "/", exact |-> FALSE, pattern |-> SLASH, handler |-> "proxy",
      origin |-> WwwOrigin, passUri |-> <<>>,
      host |-> Lit(WwwHost), realIp |-> Var("remote_addr"),
      xff |-> Var("proxy_add_x_forwarded_for"), proto |-> Var("scheme"),
      rewrite |-> NoRewrite, redirect |-> NoRedirect, timeouts |-> FALSE],
     [name |-> "/_next/", exact |-> FALSE, pattern |-> NEXT, handler |-> "proxy",
      origin |-> JobsOrigin, passUri |-> NEXT,
      host |-> Lit(JobsHost), realIp |-> Esc("remote_addr"),
      xff |-> Esc("proxy_add_x_forwarded_for"), proto |-> Esc("scheme"),
      rewrite |-> NoRewrite, redirect |-> NoRedirect, timeouts |-> FALSE],
     [name |-> "/jobs", exact |-> FALSE, pattern |-> JOBS, handler |-> "proxy",
      origin |-> JobsOrigin, passUri |-> <<>>,
      host |-> Lit(JobsHost), realIp |-> Esc("remote_addr"),
      xff |-> Esc("proxy_add_x_forwarded_for"), proto |-> Esc("scheme"),
      rewrite |-> [on |-> TRUE, anchor |-> Esc(""), group |-> Esc("1"),
                   flag |-> "break"],
      redirect |-> [on |-> TRUE, from |-> <<JobsOrigin>> \o CAREER \o SLASH,
                    to |-> JOBS \o SLASH],
      timeouts |-> TRUE],
     [name |-> "= /50x.html", exact |-> TRUE, pattern |-> FIFTY,
      handler |-> "static",
      origin |-> ErrorRoot, passUri |-> <<>>,
      host |-> Lit(""), realIp |-> Lit(""), xff |-> Lit(""), proto |-> Lit(""),
      rewrite |-> NoRewrite, redirect |-> NoRedirect, timeouts |-> FALSE] >>

(***************************************************************************)
(* The here-document has an unquoted delimiter: the shell that runs cat    *)
(* expands $name (the boot shell sets none of these names, so to nothing)  *)
(* and turns \$ into a dollar sign.                                        *)
(***************************************************************************)
ShellEnv(name) == ""

Dollar(name) ==
  CASE name = "remote_addr" -> "$remote_addr"
    [] name = "proxy_add_x_forwarded_for" -> "$proxy_add_x_forwarded_for"
    [] name = "scheme" -> "$scheme"
    [] name = "1" -> "$1"
    [] OTHER -> "$"

HeredocWord(w) ==
  CASE w.q = "lit" -> w.v
    [] w.q = "var" -> ShellEnv(w.v)
    [] w.q = "esc" -> Dollar(w.v)

HeredocLocation(l) ==
  [l EXCEPT !.host = HeredocWord(l.host), !.realIp = HeredocWord(l.realIp),
            !.xff = HeredocWord(l.xff), !.proto = HeredocWord(l.proto),
            !.rewrite = [on |-> l.rewrite.on,
                         anchor |-> HeredocWord(l.rewrite.anchor),
                         group |-> HeredocWord(l.rewrite.group),
                         flag |-> l.rewrite.flag]]

WrittenConf == [i \in DOMAIN Template |-> HeredocLocation(Template[i])]

(***************************************************************************)
(* nginx -t: proxy_set_header takes exactly two arguments, so a directive  *)
(* whose value expanded to nothing is rejected.                            *)
(***************************************************************************)
LocationValid(l) ==
  l.handler = "proxy" =>
    /\ l.host # ""
    /\ l.realIp # ""
    /\ l.xff # ""
    /\ l.proto # ""

NginxT(file) ==
  CASE file = "package" -> TRUE
    [] file = "written" -> \A i \in DOMAIN WrittenConf : LocationValid(WrittenConf[i])
    [] OTHER -> FALSE

(***************************************************************************)
(* nginx request processing over a site file (a sequence of locations).    *)
(***************************************************************************)
Matches(l, uri) == IF l.exact THEN uri = l.pattern ELSE IsPrefix(l.pattern, uri)

\* Mutants of SelectLocation: the first declared location that matches; and
\* prefix locations only, "=" locations ignored.
SelectFirstDeclared(conf, uri) ==
  LET m == {i \in DOMAIN conf : Matches(conf[i], uri)}
  IN IF m = {} THEN 0 ELSE CHOOSE i \in m : \A j \in m : i <= j

SelectPrefixOnly(conf, uri) ==
  LET pf == {i \in DOMAIN conf : ~conf[i].exact /\ Matches(conf[i], uri)}
  IN IF pf = {} THEN 0
     ELSE CHOOSE i \in pf :
            \A j \in pf : Len(conf[j].pattern) <= Len(conf[i].pattern)

\* An exact-match location wins; otherwise the longest matching prefix,
\* whatever the order of declaration.  0: no location matches.
SelectLocation(conf, uri) ==
  LET ex == {i \in DOMAIN conf : conf[i].exact /\ Matches(conf[i], uri)}
      pf == {i \in DOMAIN conf : ~conf[i].exact /\ Matches(conf[i], uri)}
  IN IF ex # {} THEN CHOOSE i \in ex : TRUE
     ELSE IF pf = {} THEN 0
     ELSE CHOOSE i \in pf :
            \A j \in pf : Len(conf[j].pattern) <= Len(conf[i].pattern)

\* rewrite ^/jobs(/.*)?$ /career$1 break: the text after /jobs is captured
\* when it starts with a slash; with the end anchor nothing else may follow.
RewriteGroup(uri) ==
  LET rest == Drop(uri, Len(JOBS))
  IN IF rest # <<>> /\ rest[1] = "/" THEN rest ELSE <<>>

RewriteMatches(rw, uri) ==
  /\ rw.on
  /\ IsPrefix(JOBS, uri)
  /\ rw.anchor = "$" => Len(JOBS) + Len(RewriteGroup(uri)) = Len(uri)

\* Mutant of RewriteUri: the replacement without its $1.
RewriteUriNoGroup(l, uri) ==
  IF RewriteMatches(l.rewrite, uri) THEN CAREER ELSE uri

RewriteUri(l, uri) ==
  IF RewriteMatches(l.rewrite, uri)
  THEN CAREER \o (IF l.rewrite.group = "$1" THEN RewriteGroup(uri) ELSE <<>>)
  ELSE uri

\* Mutant of ProxyUri: the matched prefix is cut off and not replaced.
ProxyUriStripped(l, uri) ==
  IF l.passUri = <<>> \/ RewriteMatches(l.rewrite, uri)
  THEN RewriteUri(l, uri)
  ELSE SLASH \o Drop(uri, Len(l.pattern))

\* proxy_pass with a URI part replaces the matched prefix by it; without one,
\* or after a rewrite, the (rewritten) request URI is passed in full.
ProxyUri(l, uri) ==
  IF l.passUri = <<>> \/ RewriteMatches(l.rewrite, uri)
  THEN RewriteUri(l, uri)
  ELSE l.passUri \o Drop(uri, Len(l.pattern))

\* proxy_set_header values; an empty value passes no such header.
EvalWord(v, r) ==
  CASE v = "$remote_addr" -> r.peer
    [] v = "$scheme" -> r.scheme
    [] OTHER -> v

EvalChain(v, r) ==
  CASE v = "$proxy_add_x_forwarded_for" -> Append(r.xff, r.peer)
    [] v = "" -> <<>>
    [] OTHER -> <<v>>

\* proxy_redirect: the given prefix of a Location header is replaced; where no
\* directive is given nginx uses the default made of proxy_pass and location.
RedirectOf(l) ==
  IF l.redirect.on THEN l.redirect
  ELSE IF l.passUri = <<>>
       THEN [on |-> TRUE, from |-> <<l.origin>> \o SLASH, to |-> SLASH]
       ELSE [on |-> TRUE, from |-> <<l.origin>> \o l.passUri, to |-> l.pattern]

ProxyRedirect(l, location) ==
  LET rd == RedirectOf(l)
  IN IF IsPrefix(rd.from, location)
     THEN rd.to \o Drop(location, Len(rd.from))
     ELSE location

\* error_page 500 502 503 504 /50x.html: the status is kept, the body is
\* the page of location = /50x.html.
ErrorPage(conf, status) ==
  IF status \in {500, 502, 503, 504} THEN SelectLocation(conf, FIFTY) ELSE 0

(***************************************************************************)
(* Requests                                                                *)
(***************************************************************************)
Ids == 1 .. MaxReqs

\* /, /_next/f, /jobs, /jobs/f, /jobsf, /50x.html
Paths == {SLASH, NEXT \o <<"f">>, JOBS, JOBS \o SLASH \o <<"f">>,
          JOBS \o <<"f">>, FIFTY}

Hosts == {WwwHost, "alb.elb.amazonaws.com"}

NewReq ==
  [stage |-> "new", host |-> "", path |-> <<>>, orig |-> <<>>, xff |-> <<>>,
   peer |-> "", scheme |-> "", loc |-> 0, origin |-> "", uri |-> <<>>,
   oHost |-> "", oRealIp |-> "", oXff |-> <<>>, oProto |-> "",
   reply |-> "none", rloc |-> <<>>, status |-> 0, body |-> "",
   location |-> <<>>, hops |-> 0, via |-> ""]

Init ==
  /\ pc = "update"
  /\ siteFile = "none"
  /\ nginx = [state |-> "absent", loaded |-> "none"]
  /\ validated = "none"
  /\ enabled = FALSE
  /\ reqs = [i \in Ids |-> NewReq]

\* A client opens a TLS connection to the load balancer and sends a request.
ClientSend(i, h) ==
  /\ reqs[i].stage = "new"
  /\ \E p \in Paths :
       reqs' = [reqs EXCEPT ![i] =
                 [@ EXCEPT !.stage = "alb", !.host = h, !.path = p, !.orig = p,
                           !.peer = ClientAddr, !.scheme = "https"]]
  /\ UNCHANGED bootVars

\* HttpsListener defaultAction: fixedResponse(403, "Forbidden").
AlbFixedResponse(i) ==
  /\ reqs[i].stage = "alb"
  /\ reqs[i].host # WwwHost
  /\ reqs' = [reqs EXCEPT ![i] =
               [@ EXCEPT !.stage = "done", !.status = 403, !.body = "Forbidden",
                         !.via = "alb"]]
  /\ UNCHANGED bootVars

\* Mutant of AlbForward: the rule forwards whatever the Host header says.
AlbForwardAnyHost(i) ==
  /\ reqs[i].stage = "alb"
  /\ reqs' = [reqs EXCEPT ![i] =
               [@ EXCEPT !.stage = "nginx", !.xff = Append(@, reqs[i].peer),
                         !.peer = AlbAddr, !.scheme = "http"]]
  /\ UNCHANGED bootVars

\* AllowBimecoDomain: hostHeaders(["www.bim.com.sg"]) forwards to the target
\* group (HTTP, port 80); the load balancer appends the peer to X-Forwarded-For.
AlbForward(i) ==
  /\ reqs[i].stage = "alb"
  /\ reqs[i].host = WwwHost
  /\ reqs' = [reqs EXCEPT ![i] =
               [@ EXCEPT !.stage = "nginx", !.xff = Append(@, reqs[i].peer),
                         !.peer = AlbAddr, !.scheme = "http"]]
  /\ UNCHANGED bootVars

(***************************************************************************)
(* The boot script: userData.addCommands under #!/bin/bash, no set -e, so  *)
(* every command runs whatever the exit status of the one before.          *)
(***************************************************************************)
AptUpdate ==
  /\ pc = "update"
  /\ pc' = "install"
  /\ UNCHANGED <<siteFile, nginx, validated, enabled, reqs>>

\* apt-get install -y nginx: the package brings its default site and its
\* post-install step starts the service.
AptInstall ==
  /\ pc = "install"
  /\ pc' = "write"
  /\ siteFile' = "package"
  /\ nginx' = [state |-> "running", loaded |-> "package"]
  /\ UNCHANGED <<validated, enabled, reqs>>

\* sudo bash -c 'cat > /etc/nginx/sites-available/default <<EOF ... EOF'
WriteSiteFile ==
  /\ pc = "write"
  /\ pc' = "test"
  /\ siteFile' = "written"
  /\ UNCHANGED <<nginx, validated, enabled, reqs>>

\* sudo nginx -t
NginxTest ==
  /\ pc = "test"
  /\ pc' = "restart"
  /\ validated' = IF NginxT(siteFile) THEN "ok" ELSE "failed"
  /\ UNCHANGED <<siteFile, nginx, enabled, reqs>>

\* sudo systemctl restart nginx: the service is stopped and started again;
\* the start loads the site file and fails on a file nginx rejects.
SystemctlRestart ==
  /\ pc = "restart"
  /\ pc' = "enable"
  /\ nginx' = IF NginxT(siteFile)
              THEN [state |-> "running", loaded |-> siteFile]
              ELSE [state |-> "stopped", loaded |-> "none"]
  /\ UNCHANGED <<siteFile, validated, enabled, reqs>>

\* sudo systemctl enable nginx
SystemctlEnable ==
  /\ pc = "enable"
  /\ pc' = "done"
  /\ enabled' = TRUE
  /\ UNCHANGED <<siteFile, nginx, validated, reqs>>

(***************************************************************************)
(* The target of the listener while the instance boots.                    *)
(***************************************************************************)
\* Nothing listens on port 80: the load balancer answers 502.
TargetRefused(i) ==
  /\ reqs[i].stage = "nginx"
  /\ nginx.state # "running"
  /\ reqs' = [reqs EXCEPT ![i] =
               [@ EXCEPT !.stage = "done", !.status = 502, !.via = "alb"]]
  /\ UNCHANGED bootVars

\* The package's default site: the welcome page at /, 404 elsewhere.
TargetDefaultSite(i) ==
  /\ reqs[i].stage = "nginx"
  /\ nginx.state = "running"
  /\ nginx.loaded = "package"
  /\ reqs' = [reqs EXCEPT ![i] =
               [@ EXCEPT !.stage = "done",
                         !.status = IF reqs[i].path = SLASH THEN 200 ELSE 404,
                         !.body = "default site", !.via = "default site"]]
  /\ UNCHANGED bootVars

(***************************************************************************)
(* The written site file, request by request.                              *)
(***************************************************************************)
\* location = /50x.html { root /usr/share/nginx/html; }  The page is taken
\* to exist under that root.
NginxStatic(i) ==
  LET r == reqs[i]
      k == SelectLocation(WrittenConf, r.path)
  IN /\ r.stage = "nginx"
     /\ k # 0
     /\ WrittenConf[k].handler = "static"
     /\ reqs' = [reqs EXCEPT ![i] =
                  [@ EXCEPT !.stage = "done", !.loc = k, !.status = 200,
                            !.body = "50x.html", !.via = "static"]]
     /\ UNCHANGED bootVars

\* A proxying location: rewrite, proxy_set_header, proxy_pass.
NginxProxy(i) ==
  LET r == reqs[i]
      k == SelectLocation(WrittenConf, r.path)
  IN /\ r.stage = "nginx"
     /\ k # 0
     /\ WrittenConf[k].handler = "proxy"
     /\ reqs' = [reqs EXCEPT ![i] =
                  [@ EXCEPT !.stage = "upstream", !.loc = k,
                            !.origin = WrittenConf[k].origin,
                            !.uri = ProxyUri(WrittenConf[k], r.path),
                            !.oHost = EvalWord(WrittenConf[k].host, r),
                            !.oRealIp = EvalWord(WrittenConf[k].realIp, r),
                            !.oXff = EvalChain(WrittenConf[k].xff, r),
                            !.oProto = EvalWord(WrittenConf[k].proto, r),
                            !.hops = @ + 1]]
     /\ UNCHANGED bootVars

\* https://www.bim.com.sg is the name the certificate and the host rule of
\* this load balancer are made for: where that name resolves to the load
\* balancer, the forwarded request arrives at the listener again.
UpstreamReenter(i) ==
  LET r == reqs[i]
  IN /\ r.stage = "upstream"
     /\ r.origin = WwwOrigin
     /\ r.hops < MaxHops
     /\ reqs' = [reqs EXCEPT ![i] =
                  [@ EXCEPT !.stage = "alb", !.host = r.oHost, !.path = r.uri,
                            !.xff = r.oXff, !.peer = InstanceAddr,
                            !.scheme = "https"]]
     /\ UNCHANGED bootVars

\* What an upstream may put in a Location header: the forwarded path as an
\* absolute URL of the upstream, or as a path.
Locations(r) == {<<r.origin>> \o r.uri, r.uri}

\* The upstream answers (200, or 301 with a Location) and nginx relays the
\* response to the client, Location rewritten by proxy_redirect.
NginxReturn(i) ==
  LET r == reqs[i]
  IN /\ r.stage = "upstream"
     /\ \/ reqs' = [reqs EXCEPT ![i] =
                     [@ EXCEPT !.stage = "done", !.reply = "ok", !.status = 200,
                               !.body = "upstream", !.via = "route"]]
        \/ \E t \in Locations(r) :
             reqs' = [reqs EXCEPT ![i] =
                       [@ EXCEPT !.stage = "done", !.reply = "redirect",
                                 !.rloc = t, !.status = 301, !.body = "upstream",
                                 !.location = ProxyRedirect(WrittenConf[r.loc], t),
                                 !.via = "route"]]
     /\ UNCHANGED bootVars

\* Mutant of NginxTimeout: the expiry is answered as a bad gateway and tears
\* down the other upstream connections as well.
NginxTimeoutAbortsAll(i) ==
  /\ reqs[i].stage = "upstream"
  /\ reqs' = [j \in Ids |->
               IF reqs[j].stage = "upstream"
               THEN [reqs[j] EXCEPT !.stage = "done", !.reply = "silent",
                                    !.status = 502, !.via = "route"]
               ELSE reqs[j]]
  /\ UNCHANGED bootVars

\* The upstream has sent nothing when proxy_read_timeout expires: 504,
\* answered with the error page (error_page keeps the status).
NginxTimeout(i) ==
  LET r == reqs[i]
  IN /\ r.stage = "upstream"
     /\ reqs' = [reqs EXCEPT ![i] =
                  [@ EXCEPT !.stage = "done", !.reply = "silent", !.status = 504,
                            !.body = IF ErrorPage(WrittenConf, 504) # 0
                                     THEN "50x.html" ELSE "",
                            !.via = "route"]]
     /\ UNCHANGED bootVars

Next ==
  \/ AptUpdate
  \/ AptInstall
  \/ WriteSiteFile
  \/ NginxTest
  \/ SystemctlRestart
  \/ SystemctlEnable
  \/ \E i \in Ids, h \in Hosts : ClientSend(i, h)
  \/ \E i \in Ids : AlbFixedResponse(i)
  \/ \E i \in Ids : AlbForward(i)
  \/ \E i \in Ids : TargetRefused(i)
  \/ \E i \in Ids : TargetDefaultSite(i)

Spec == Init /\ [][Next]_vars

ConfNext ==
  \/ \E i \in Ids : ClientSend(i, WwwHost)
  \/ \E i \in Ids : AlbForward(i)
  \/ \E i \in Ids : NginxStatic(i)
  \/ \E i \in Ids : NginxProxy(i)
  \/ \E i \in Ids : UpstreamReenter(i)
  \/ \E i \in Ids : NginxReturn(i)
  \/ \E i \in Ids : NginxTimeout(i)

ConfSpec == Init /\ [][ConfNext]_vars

FairConfSpec ==
  /\ ConfSpec
  /\ \A i \in Ids : WF_vars(NginxTimeout(i))

(***************************************************************************)
(* Properties                                                              *)
(***************************************************************************)
\* A request nginx has processed under the written file; r.path is the path
\* it was matched on.
Handled(r) == r.loc # 0 /\ r.stage \in {"upstream", "done"}

Forwarded(r) == Handled(r) /\ WrittenConf[r.loc].handler = "proxy"

C3_ForwardedHeadersAsWritten ==
  siteFile = "written" =>
    \A k \in DOMAIN WrittenConf :
      WrittenConf[k].handler = "proxy" =>
        /\ WrittenConf[k].host \in {WwwHost, JobsHost}
        /\ WrittenConf[k].realIp = "$remote_addr"
        /\ WrittenConf[k].xff = "$proxy_add_x_forwarded_for"
        /\ WrittenConf[k].proto = "$scheme"

C5_ForbiddenOnlyWhenUnmatched ==
  \A i \in Ids :
    (reqs[i].stage = "done" /\ reqs[i].status = 403 /\ reqs[i].body = "Forbidden")
      => SelectLocation(WrittenConf, reqs[i].path) = 0

\* C5 amended: an answered request has the fixed 403 "Forbidden" exactly when
\* its Host header is not www.bim.com.sg, whatever its path, and every
\* answered request carries a status.
C5_ForbiddenIffOtherHost ==
  \A i \in Ids :
    reqs[i].stage = "done" =>
      /\ (reqs[i].status = 403 /\ reqs[i].body = "Forbidden")
           <=> reqs[i].host # WwwHost
      /\ reqs[i].status \in {200, 403, 404, 502}

C5_Witness ==
  \E i \in Ids :
    /\ reqs[i].stage = "done"
    /\ reqs[i].status = 403
    /\ reqs[i].body = "Forbidden"
    /\ reqs[i].path = JOBS
    /\ SelectLocation(WrittenConf, reqs[i].path) = 3

C8_NoServiceAfterFailedValidation ==
  validated = "failed" => nginx.state # "running"

====
